---- MODULE Spec2Model ----
(***************************************************************************)
(* Inventory consistency core of minichannel-api: the Stock ledger, the    *)
(* StockAdjustment audit log and the StockTransfer workflow, as written in *)
(* routes/stock-transfers.js and src/routes/products.ts.                   *)
(*                                                                         *)
(* Every request handler is an async function.  Between two awaits its     *)
(* code runs without interruption, so a handler is modelled as a sequence  *)
(* of atomic steps, one per datastore call: the reads it does before its   *)
(* transaction (with the checks that follow them) and the transaction      *)
(* itself, which commits all of its writes at once.  Several handlers      *)
(* (Procs) run at the same time and their steps interleave.                *)
(***************************************************************************)
EXTENDS Integers, Sequences, FiniteSets, TLC

\* ---------------------------------------------------------------- bounds
NumProcs == 2          \* request handlers in flight at the same time
MaxRequests == 3       \* requests that pass their checks and go on to write
MaxAmount == 1         \* largest quantity an adjustment or a transfer asks for
MaxQty == 2            \* largest quantity an add or an absolute set reaches
InitQty == 1           \* quantity of the one Stock row that exists at start
InitPrice == 2         \* its price
SetPrice == 3          \* the price a price update carries
MaxAdjust == 2         \* largest quantity an adjustment asks for when served alone
MaxMinStock == 2       \* largest threshold an alert is set to

Procs == 1..NumProcs
Variants == {"V1"}
Branches == {"B1", "B2"}
StockKeys == Variants \X Branches

\* The bodies of a stock update: a quantity alone (a negative one, the largest)
\* or a price alone.
SetQuantities == {-1, MaxQty}
SetBodies ==
  {[hasQuantity |-> TRUE, quantity |-> q, hasPrice |-> FALSE, price |-> 0] : q \in SetQuantities}
    \cup {[hasQuantity |-> FALSE, quantity |-> 0, hasPrice |-> TRUE, price |-> SetPrice]}

\* The authenticated actors (req.user, decoded from the token) and their roles.
Users == {"a1", "a2", "m1", "k1"}

RoleOf(u) ==
  CASE u = "a1" -> "ADMIN"
    [] u = "a2" -> "ADMIN"
    [] u = "m1" -> "MANAGER"
    [] OTHER    -> "KASIR"

VARIABLES
  stock,            \* Stock rows: [StockKeys -> [present, quantity, price]]
  stockTransfer,    \* StockTransfer rows, the id of a row is its index
  stockAdjustment,  \* StockAdjustment rows in commit order
  h,                \* per handler: the request being served and its locals
  response,         \* the last response sent: [op, id, status]
  debits,           \* history: per transfer, how often its source was debited
  credits,          \* history: per transfer, how often its destination was credited
  started,          \* history: requests that passed their checks so far
  events,           \* the payloads handed to emitStockUpdated, in order
  stockAlert,       \* StockAlert rows: [StockKeys -> [present, minStock, isActive]]
  listing           \* the data of the last alert listing sent: [op, cabangId, data]

vars == <<stock, stockTransfer, stockAdjustment, h, response, debits, credits, started,
          events, stockAlert, listing>>

\* ------------------------------------------------------------- helpers
NoRow == [present |-> FALSE, quantity |-> 0, price |-> 0]

\* A handler's locals.  pc: idle (no request), check and tx (a request between
\* two awaits).
Idle == [op |-> "none", pc |-> "idle", userId |-> "none",
         variantId |-> "none", cabangId |-> "none", toCabangId |-> "none",
         type |-> "none", quantity |-> 0, hasQuantity |-> FALSE,
         price |-> 0, hasPrice |-> FALSE,
         id |-> 0, previousQty |-> 0, newQty |-> 0,
         notes |-> <<>>, reason |-> "none", minStock |-> 0]

\* res.status(...).json(...): the handler answers and ends.
Respond(p, op, id, status) ==
  /\ h' = [h EXCEPT ![p] = Idle]
  /\ response' = [op |-> op, id |-> id, status |-> status]
  /\ started' = started

\* The handler goes on to its next await with these locals.
Proceed(p, locals) ==
  /\ started < MaxRequests
  /\ h' = [h EXCEPT ![p] = locals]
  /\ started' = started + 1
  /\ UNCHANGED response

\* The database is left as it is.
NoWrite ==
  UNCHANGED <<stock, stockTransfer, stockAdjustment, debits, credits,
              events, stockAlert, listing>>

\* The StockAlert table is left as it is and no listing is sent.
NoAlert == UNCHANGED <<stockAlert, listing>>

NoAlertRow == [present |-> FALSE, minStock |-> 0, isActive |-> FALSE]

Init ==
  /\ stock = [k \in StockKeys |->
                IF k = <<"V1", "B1">>
                  THEN [present |-> TRUE, quantity |-> InitQty, price |-> InitPrice]
                  ELSE NoRow]
  /\ stockTransfer = <<>>
  /\ stockAdjustment = <<>>
  /\ h = [p \in Procs |-> Idle]
  /\ response = [op |-> "none", id |-> 0, status |-> "none"]
  /\ debits = <<>>
  /\ credits = <<>>
  /\ started = 0
  /\ events = <<>>
  /\ stockAlert = [k \in StockKeys |-> NoAlertRow]
  /\ listing = [op |-> "none", cabangId |-> "none", data |-> {}]

\* ------------------------------------------------- POST /adjustment
\* Mutant: the two branches of the difference are swapped.
Difference_Swapped(type, quantity) == IF type = "add" THEN -quantity ELSE quantity

\* The signed difference of an adjustment request.
Difference(type, quantity) == IF type = "add" THEN quantity ELSE -quantity

\* Map frontend reason to backend enum; "null" stands for null and "none" for
\* a body that carries no reason.
reasonMap ==
  [r \in {"restock", "return", "found"} |-> "null"]
    @@ ("correction" :> "STOCK_OPNAME") @@ ("damaged" :> "DAMAGED")
    @@ ("expired" :> "DAMAGED") @@ ("lost" :> "LOST") @@ ("sample" :> "OTHER")
    @@ ("other_add" :> "OTHER") @@ ("other_subtract" :> "OTHER")

\* reasonMap[reason] || null
AdjustmentReason(reason) ==
  IF reason \in DOMAIN reasonMap THEN reasonMap[reason] ELSE "null"

\* Mutant: the result of a subtraction is not checked.
AdjustmentRead_NoNegativeCheck(p, variantId, cabangId, type, quantity, reason) ==
  /\ h[p].pc = "idle"
  /\ NoWrite
  /\ IF quantity = 0 \/ type \notin {"add", "subtract"} \/ quantity <= 0
       THEN Respond(p, "createAdjustment", 0, "ValidationError")
     ELSE IF ~stock[<<variantId, cabangId>>].present
       THEN Respond(p, "createAdjustment", 0, "NotFound")
     ELSE LET previousQty == stock[<<variantId, cabangId>>].quantity
              newQty == previousQty + Difference(type, quantity)
          IN /\ newQty <= MaxQty
             /\ Proceed(p, [Idle EXCEPT !.op = "createAdjustment", !.pc = "tx",
                               !.variantId = variantId, !.cabangId = cabangId,
                               !.type = type, !.quantity = quantity,
                               !.reason = reason,
                               !.previousQty = previousQty, !.newQty = newQty])

\* Mutant: the type of the request is not validated.
AdjustmentRead_NoTypeCheck(p, variantId, cabangId, type, quantity, reason) ==
  /\ h[p].pc = "idle"
  /\ NoWrite
  /\ IF quantity = 0 \/ quantity <= 0
       THEN Respond(p, "createAdjustment", 0, "ValidationError")
     ELSE IF ~stock[<<variantId, cabangId>>].present
       THEN Respond(p, "createAdjustment", 0, "NotFound")
     ELSE LET previousQty == stock[<<variantId, cabangId>>].quantity
              newQty == previousQty + Difference(type, quantity)
          IN IF newQty < 0
               THEN Respond(p, "createAdjustment", 0, "InsufficientStock")
               ELSE /\ newQty <= MaxQty
                    /\ Proceed(p, [Idle EXCEPT !.op = "createAdjustment", !.pc = "tx",
                                      !.variantId = variantId, !.cabangId = cabangId,
                                      !.type = type, !.quantity = quantity,
                                      !.reason = reason,
                                      !.previousQty = previousQty, !.newQty = newQty])

\* Validation, the read of the Stock row and the negative-stock check.
AdjustmentRead(p, variantId, cabangId, type, quantity, reason) ==
  /\ h[p].pc = "idle"
  /\ NoWrite
  /\ IF quantity = 0 \/ type \notin {"add", "subtract"} \/ quantity <= 0
       THEN Respond(p, "createAdjustment", 0, "ValidationError")
     ELSE IF ~stock[<<variantId, cabangId>>].present
       THEN Respond(p, "createAdjustment", 0, "NotFound")
     ELSE LET previousQty == stock[<<variantId, cabangId>>].quantity
              newQty == previousQty + Difference(type, quantity)
          IN IF newQty < 0
               THEN Respond(p, "createAdjustment", 0, "InsufficientStock")
               ELSE /\ newQty <= MaxQty
                    /\ Proceed(p, [Idle EXCEPT !.op = "createAdjustment", !.pc = "tx",
                                      !.variantId = variantId, !.cabangId = cabangId,
                                      !.type = type, !.quantity = quantity,
                                      !.reason = reason,
                                      !.previousQty = previousQty, !.newQty = newQty])

\* Mutant: the row records the quantity of the request as its difference.
AdjustmentTx_UnsignedDifference(p) ==
  /\ h[p].pc = "tx"
  /\ h[p].op = "createAdjustment"
  /\ stock' = [stock EXCEPT ![<<h[p].variantId, h[p].cabangId>>].quantity = h[p].newQty]
  /\ stockAdjustment' = Append(stockAdjustment,
       [productVariantId |-> h[p].variantId, cabangId |-> h[p].cabangId,
        previousQty |-> h[p].previousQty, newQty |-> h[p].newQty,
        difference |-> h[p].quantity,
        reason |-> AdjustmentReason(h[p].reason)])
  /\ events' = Append(events,
       [type |-> "adjustment", id |-> Len(stockAdjustment) + 1,
        variantId |-> h[p].variantId, cabangId |-> h[p].cabangId,
        quantity |-> h[p].newQty, previousQty |-> h[p].previousQty])
  /\ Respond(p, "createAdjustment", 0, "ok")
  /\ NoAlert
  /\ UNCHANGED <<stockTransfer, debits, credits>>

\* Mutant: the ledger is written relative to what it holds at the commit,
\* while the row and the event carry the newQty computed at the read.
AdjustmentTx_RelativeWrite(p) ==
  /\ h[p].pc = "tx"
  /\ h[p].op = "createAdjustment"
  /\ stock' = [stock EXCEPT ![<<h[p].variantId, h[p].cabangId>>].quantity =
                 @ + Difference(h[p].type, h[p].quantity)]
  /\ stockAdjustment' = Append(stockAdjustment,
       [productVariantId |-> h[p].variantId, cabangId |-> h[p].cabangId,
        previousQty |-> h[p].previousQty, newQty |-> h[p].newQty,
        difference |-> Difference(h[p].type, h[p].quantity),
        reason |-> AdjustmentReason(h[p].reason)])
  /\ events' = Append(events,
       [type |-> "adjustment", id |-> Len(stockAdjustment) + 1,
        variantId |-> h[p].variantId, cabangId |-> h[p].cabangId,
        quantity |-> h[p].newQty, previousQty |-> h[p].previousQty])
  /\ Respond(p, "createAdjustment", 0, "ok")
  /\ NoAlert
  /\ UNCHANGED <<stockTransfer, debits, credits>>

\* The transaction: the absolute write of newQty and the adjustment row.
AdjustmentTx(p) ==
  /\ h[p].pc = "tx"
  /\ h[p].op = "createAdjustment"
  /\ stock' = [stock EXCEPT ![<<h[p].variantId, h[p].cabangId>>].quantity = h[p].newQty]
  /\ stockAdjustment' = Append(stockAdjustment,
       [productVariantId |-> h[p].variantId, cabangId |-> h[p].cabangId,
        previousQty |-> h[p].previousQty, newQty |-> h[p].newQty,
        difference |-> Difference(h[p].type, h[p].quantity),
        reason |-> AdjustmentReason(h[p].reason)])
  /\ events' = Append(events,
       [type |-> "adjustment", id |-> Len(stockAdjustment) + 1,
        variantId |-> h[p].variantId, cabangId |-> h[p].cabangId,
        quantity |-> h[p].newQty, previousQty |-> h[p].previousQty])
  /\ Respond(p, "createAdjustment", 0, "ok")
  /\ NoAlert
  /\ UNCHANGED <<stockTransfer, debits, credits>>

\* ------------------------------------- PUT /stock/:variantId/:cabangId
\* ownerOrManager, then the read of the current row.  hasQuantity and hasPrice
\* say whether the body carries a quantity and a price.
SetQuantityRead(p, userId, variantId, cabangId, hasQuantity, quantity, hasPrice, price) ==
  /\ h[p].pc = "idle"
  /\ NoWrite
  /\ IF RoleOf(userId) # "OWNER" /\ RoleOf(userId) # "MANAGER"
       THEN Respond(p, "setQuantity", 0, "Forbidden")
     ELSE LET currentStock == stock[<<variantId, cabangId>>]
              previousQty == IF currentStock.present THEN currentStock.quantity ELSE 0
              newQty == IF hasQuantity THEN quantity ELSE previousQty
          IN Proceed(p, [Idle EXCEPT !.op = "setQuantity", !.pc = "tx",
                                     !.variantId = variantId, !.cabangId = cabangId,
                                     !.hasQuantity = hasQuantity,
                                     !.hasPrice = hasPrice,
                                     !.price = IF hasPrice THEN price ELSE 0,
                                     !.previousQty = previousQty, !.newQty = newQty])

\* The transaction: the upsert of the row and, when the quantity the handler
\* read differs from the one it writes, the adjustment row.
SetQuantityTx(p) ==
  LET k == <<h[p].variantId, h[p].cabangId>>
      row == stock[k]
  IN
  /\ h[p].pc = "tx"
  /\ h[p].op = "setQuantity"
  /\ stock' = [stock EXCEPT ![k] =
       IF row.present
         THEN [present |-> TRUE,
               quantity |-> IF h[p].hasQuantity THEN h[p].newQty ELSE row.quantity,
               price |-> IF h[p].hasPrice THEN h[p].price ELSE row.price]
         ELSE [present |-> TRUE, quantity |-> h[p].newQty, price |-> h[p].price]]
  /\ stockAdjustment' =
       IF h[p].hasQuantity /\ h[p].previousQty # h[p].newQty
         THEN Append(stockAdjustment,
                [productVariantId |-> h[p].variantId, cabangId |-> h[p].cabangId,
                 previousQty |-> h[p].previousQty, newQty |-> h[p].newQty,
                 difference |-> h[p].newQty - h[p].previousQty,
                 reason |-> "null"])
         ELSE stockAdjustment
  /\ events' = Append(events,
       [type |-> "set", id |-> 0,
        variantId |-> h[p].variantId, cabangId |-> h[p].cabangId,
        quantity |-> h[p].newQty, previousQty |-> h[p].previousQty])
  /\ Respond(p, "setQuantity", 0, "ok")
  /\ NoAlert
  /\ UNCHANGED <<stockTransfer, debits, credits>>

\* ------------------------------------------------- POST / (transfers)
\* Mutant: only the owner is auto-approved.
isAutoApprove_OwnerOnly(role) == role = "OWNER"

\* Mutant: every role that may create a transfer is auto-approved.
isAutoApprove_NotKasir(role) == role # "KASIR"

\* Determine if auto-approve (MANAGER/OWNER) or needs approval.
isAutoApprove(role) == role = "MANAGER" \/ role = "OWNER"

\* The debit of the source row: quantity: { decrement: n }.
Decrement(rows, k, n) == [rows EXCEPT ![k].quantity = @ - n]

\* Mutant: a destination row that does not exist yet is created empty.
UpsertIncrement_CreateZero(rows, k, n, price) ==
  [rows EXCEPT ![k] =
     IF @.present THEN [@ EXCEPT !.quantity = @ + n]
                  ELSE [present |-> TRUE, quantity |-> 0, price |-> price]]

\* The credit of the destination row: an upsert that increments the row or
\* creates it with the quantity and the price the handler read at the source.
UpsertIncrement(rows, k, n, price) ==
  [rows EXCEPT ![k] =
     IF @.present THEN [@ EXCEPT !.quantity = @ + n]
                  ELSE [present |-> TRUE, quantity |-> n, price |-> price]]

\* The payload of a transfer event.
TransferEvent(id, variantId, fromCabangId, quantity) ==
  [type |-> "transfer", id |-> id, variantId |-> variantId, cabangId |-> fromCabangId,
   quantity |-> quantity, previousQty |-> 0]

\* Mutant: the two branches are not compared.
CreateTransferRead_NoBranchCheck(p, userId, variantId, fromCabangId, toCabangId, quantity, notes) ==
  /\ h[p].pc = "idle"
  /\ NoWrite
  /\ IF RoleOf(userId) = "KASIR"
       THEN Respond(p, "createTransfer", 0, "Forbidden")
     ELSE IF quantity = 0 \/ quantity <= 0
       THEN Respond(p, "createTransfer", 0, "ValidationError")
     ELSE LET sourceStock == stock[<<variantId, fromCabangId>>]
          IN IF ~sourceStock.present
               THEN Respond(p, "createTransfer", 0, "NotFound")
             ELSE IF sourceStock.quantity < quantity
               THEN Respond(p, "createTransfer", 0, "InsufficientStock")
             ELSE Proceed(p, [Idle EXCEPT !.op = "createTransfer", !.pc = "tx",
                                !.userId = userId, !.variantId = variantId,
                                !.cabangId = fromCabangId, !.toCabangId = toCabangId,
                                !.quantity = quantity, !.notes = notes,
                                !.price = sourceStock.price])

\* The role gate, the validation and the check of the source row.
CreateTransferRead(p, userId, variantId, fromCabangId, toCabangId, quantity, notes) ==
  /\ h[p].pc = "idle"
  /\ NoWrite
  /\ IF RoleOf(userId) = "KASIR"
       THEN Respond(p, "createTransfer", 0, "Forbidden")
     ELSE IF quantity = 0 \/ fromCabangId = toCabangId \/ quantity <= 0
       THEN Respond(p, "createTransfer", 0, "ValidationError")
     ELSE LET sourceStock == stock[<<variantId, fromCabangId>>]
          IN IF ~sourceStock.present
               THEN Respond(p, "createTransfer", 0, "NotFound")
             ELSE IF sourceStock.quantity < quantity
               THEN Respond(p, "createTransfer", 0, "InsufficientStock")
             ELSE Proceed(p, [Idle EXCEPT !.op = "createTransfer", !.pc = "tx",
                                !.userId = userId, !.variantId = variantId,
                                !.cabangId = fromCabangId, !.toCabangId = toCabangId,
                                !.quantity = quantity, !.notes = notes,
                                !.price = sourceStock.price])

\* The transaction: the transfer row and, when auto-approved, both ledger legs.
CreateTransferTx(p) ==
  LET auto == isAutoApprove(RoleOf(h[p].userId))
      from == <<h[p].variantId, h[p].cabangId>>
      to == <<h[p].variantId, h[p].toCabangId>>
  IN
  /\ h[p].pc = "tx"
  /\ h[p].op = "createTransfer"
  /\ stockTransfer' = Append(stockTransfer,
       [variantId |-> h[p].variantId, fromCabangId |-> h[p].cabangId,
        toCabangId |-> h[p].toCabangId, quantity |-> h[p].quantity,
        transferredById |-> h[p].userId, notes |-> h[p].notes,
        status |-> IF auto THEN "COMPLETED" ELSE "PENDING"])
  /\ stock' = IF auto
                THEN UpsertIncrement(Decrement(stock, from, h[p].quantity),
                                     to, h[p].quantity, h[p].price)
                ELSE stock
  /\ debits' = Append(debits, IF auto THEN 1 ELSE 0)
  /\ credits' = Append(credits, IF auto THEN 1 ELSE 0)
  /\ events' = IF auto
                 THEN Append(events, TransferEvent(Len(stockTransfer) + 1, h[p].variantId,
                                                   h[p].cabangId, h[p].quantity))
                 ELSE events
  /\ Respond(p, "createTransfer", Len(stockTransfer) + 1, "ok")
  /\ NoAlert
  /\ UNCHANGED stockAdjustment

\* ------------------------------------------------- PATCH /:id/approve
\* Mutant: the status of the transfer is not looked at.
ApproveRead_NoStatusCheck(p, userId, id) ==
  /\ h[p].pc = "idle"
  /\ NoWrite
  /\ IF RoleOf(userId) # "MANAGER" /\ RoleOf(userId) # "OWNER"
       THEN Respond(p, "approveTransfer", id, "Forbidden")
     ELSE IF id \notin DOMAIN stockTransfer
       THEN Respond(p, "approveTransfer", id, "NotFound")
     ELSE Proceed(p, [Idle EXCEPT !.op = "approveTransfer", !.pc = "check", !.id = id])

\* The role gate and the read of the transfer.
ApproveRead(p, userId, id) ==
  /\ h[p].pc = "idle"
  /\ NoWrite
  /\ IF RoleOf(userId) # "MANAGER" /\ RoleOf(userId) # "OWNER"
       THEN Respond(p, "approveTransfer", id, "Forbidden")
     ELSE IF id \notin DOMAIN stockTransfer
       THEN Respond(p, "approveTransfer", id, "NotFound")
     ELSE IF stockTransfer[id].status # "PENDING"
       THEN Respond(p, "approveTransfer", id, "InvalidState")
     ELSE Proceed(p, [Idle EXCEPT !.op = "approveTransfer", !.pc = "check", !.id = id])

\* Mutant: the source row is read for its price but not re-checked.
ApproveCheck_NoRecheck(p) ==
  LET transfer == stockTransfer[h[p].id]
      sourceStock == stock[<<transfer.variantId, transfer.fromCabangId>>]
  IN
  /\ h[p].pc = "check"
  /\ h[p].op = "approveTransfer"
  /\ NoWrite
  /\ h' = [h EXCEPT ![p].pc = "tx", ![p].price = sourceStock.price]
  /\ UNCHANGED <<started, response>>

\* The re-check of the source row.
ApproveCheck(p) ==
  LET transfer == stockTransfer[h[p].id]
      sourceStock == stock[<<transfer.variantId, transfer.fromCabangId>>]
  IN
  /\ h[p].pc = "check"
  /\ h[p].op = "approveTransfer"
  /\ NoWrite
  /\ IF ~sourceStock.present \/ sourceStock.quantity < transfer.quantity
       THEN Respond(p, "approveTransfer", h[p].id, "InsufficientStock")
       ELSE /\ h' = [h EXCEPT ![p].pc = "tx", ![p].price = sourceStock.price]
            /\ UNCHANGED <<started, response>>

\* The transaction: both ledger legs and the status.
ApproveTx(p) ==
  LET id == h[p].id
      transfer == stockTransfer[id]
  IN
  /\ h[p].pc = "tx"
  /\ h[p].op = "approveTransfer"
  /\ stock' = UpsertIncrement(
                Decrement(stock, <<transfer.variantId, transfer.fromCabangId>>,
                          transfer.quantity),
                <<transfer.variantId, transfer.toCabangId>>, transfer.quantity, h[p].price)
  /\ stockTransfer' = [stockTransfer EXCEPT ![id].status = "COMPLETED"]
  /\ debits' = [debits EXCEPT ![id] = @ + 1]
  /\ credits' = [credits EXCEPT ![id] = @ + 1]
  /\ events' = Append(events, TransferEvent(id, transfer.variantId,
                                            transfer.fromCabangId, transfer.quantity))
  /\ Respond(p, "approveTransfer", id, "ok")
  /\ NoAlert
  /\ UNCHANGED stockAdjustment

\* ------------------------------------------------- PATCH /:id/reject
\* The read of the transfer, the status check and the ADMIN ownership check.
RejectRead(p, userId, id, reason) ==
  /\ h[p].pc = "idle"
  /\ NoWrite
  /\ IF id \notin DOMAIN stockTransfer
       THEN Respond(p, "rejectTransfer", id, "NotFound")
     ELSE IF stockTransfer[id].status # "PENDING"
       THEN Respond(p, "rejectTransfer", id, "InvalidState")
     ELSE IF RoleOf(userId) = "ADMIN" /\ stockTransfer[id].transferredById # userId
       THEN Respond(p, "rejectTransfer", id, "Forbidden")
     ELSE Proceed(p, [Idle EXCEPT !.op = "rejectTransfer", !.pc = "tx", !.id = id,
                        !.notes = stockTransfer[id].notes, !.reason = reason])

\* `${transfer.notes || ''} [CANCELLED: ${reason}]`.trim(), or the notes as read.
CancelledNotes(notes, reason) ==
  IF reason # "none" THEN Append(notes, "CANCELLED: " \o reason) ELSE notes

\* Mutant: the cancellation also returns the quantity to the source row.
RejectTx_Restock(p) ==
  LET transfer == stockTransfer[h[p].id]
  IN
  /\ h[p].pc = "tx"
  /\ h[p].op = "rejectTransfer"
  /\ stockTransfer' = [stockTransfer EXCEPT
       ![h[p].id].status = "CANCELLED",
       ![h[p].id].notes = CancelledNotes(h[p].notes, h[p].reason)]
  /\ stock' = UpsertIncrement(stock, <<transfer.variantId, transfer.fromCabangId>>,
                              transfer.quantity, 0)
  /\ Respond(p, "rejectTransfer", h[p].id, "ok")
  /\ NoAlert
  /\ UNCHANGED <<stockAdjustment, debits, credits, events>>

\* The update: status and notes, whatever the row holds by now.
RejectTx(p) ==
  /\ h[p].pc = "tx"
  /\ h[p].op = "rejectTransfer"
  /\ stockTransfer' = [stockTransfer EXCEPT
       ![h[p].id].status = "CANCELLED",
       ![h[p].id].notes = CancelledNotes(h[p].notes, h[p].reason)]
  /\ Respond(p, "rejectTransfer", h[p].id, "ok")
  /\ NoAlert
  /\ UNCHANGED <<stock, stockAdjustment, debits, credits, events>>

\* The ids a request may name: every transfer there is and one there is not.
TransferIds == 1..(Len(stockTransfer) + 1)

Next ==
  \/ \E p \in Procs, variantId \in Variants, cabangId \in Branches,
        type \in {"add", "subtract", "set"}, quantity \in -1..MaxAmount,
        reason \in {"damaged"} :
       AdjustmentRead(p, variantId, cabangId, type, quantity, reason)
  \/ \E p \in Procs : AdjustmentTx(p)
  \/ \E p \in Procs, userId \in Users, variantId \in Variants, cabangId \in Branches,
        body \in SetBodies :
       SetQuantityRead(p, userId, variantId, cabangId,
                       body.hasQuantity, body.quantity, body.hasPrice, body.price)
  \/ \E p \in Procs : SetQuantityTx(p)
  \/ \E p \in Procs, userId \in Users, variantId \in Variants,
        fromCabangId \in Branches, toCabangId \in Branches,
        quantity \in -1..MaxAmount, notes \in {<<>>} :
       CreateTransferRead(p, userId, variantId, fromCabangId, toCabangId, quantity, notes)
  \/ \E p \in Procs : CreateTransferTx(p)
  \/ \E p \in Procs, userId \in Users, id \in TransferIds : ApproveRead(p, userId, id)
  \/ \E p \in Procs : ApproveCheck(p)
  \/ \E p \in Procs : ApproveTx(p)
  \/ \E p \in Procs, userId \in Users, id \in TransferIds, reason \in {"none", "r"} :
       RejectRead(p, userId, id, reason)
  \/ \E p \in Procs : RejectTx(p)

Spec == Init /\ [][Next]_vars

\* ------------------------------------------------- POST /alert
\* Validation and the check that the Stock row exists.
SetAlertRead(p, variantId, cabangId, hasMinStock, minStock) ==
  /\ h[p].pc = "idle"
  /\ NoWrite
  /\ IF ~hasMinStock \/ minStock < 0
       THEN Respond(p, "setAlert", 0, "ValidationError")
     ELSE IF ~stock[<<variantId, cabangId>>].present
       THEN Respond(p, "setAlert", 0, "NotFound")
     ELSE Proceed(p, [Idle EXCEPT !.op = "setAlert", !.pc = "tx",
                        !.variantId = variantId, !.cabangId = cabangId,
                        !.minStock = minStock])

\* Mutant: the update sets the threshold and leaves isActive as it is.
SetAlertUpsert_KeepsInactive(p) ==
  /\ h[p].pc = "tx"
  /\ h[p].op = "setAlert"
  /\ stockAlert' = [stockAlert EXCEPT ![<<h[p].variantId, h[p].cabangId>>] =
       IF @.present THEN [@ EXCEPT !.minStock = h[p].minStock]
                    ELSE [present |-> TRUE, minStock |-> h[p].minStock, isActive |-> TRUE]]
  /\ Respond(p, "setAlert", 0, "ok")
  /\ UNCHANGED <<stock, stockTransfer, stockAdjustment, debits, credits, events, listing>>

\* Create or update alert.
SetAlertUpsert(p) ==
  /\ h[p].pc = "tx"
  /\ h[p].op = "setAlert"
  /\ stockAlert' = [stockAlert EXCEPT ![<<h[p].variantId, h[p].cabangId>>] =
       [present |-> TRUE, minStock |-> h[p].minStock, isActive |-> TRUE]]
  /\ Respond(p, "setAlert", 0, "ok")
  /\ UNCHANGED <<stock, stockTransfer, stockAdjustment, debits, credits, events, listing>>

\* ------------------------------- DELETE /alert/:variantId/:cabangId
\* The update of isActive; it throws when the pair has no alert row, and the
\* handler answers 500.
DeactivateAlert(p, variantId, cabangId) ==
  /\ h[p].pc = "idle"
  /\ IF stockAlert[<<variantId, cabangId>>].present
       THEN /\ stockAlert' = [stockAlert EXCEPT ![<<variantId, cabangId>>].isActive = FALSE]
            /\ Respond(p, "deactivateAlert", 0, "ok")
       ELSE /\ UNCHANGED stockAlert
            /\ Respond(p, "deactivateAlert", 0, "InternalError")
  /\ UNCHANGED <<stock, stockTransfer, stockAdjustment, debits, credits, events, listing>>

\* ------------------------------------------------- GET /alerts/low
\* Mutant: the rows are not filtered by isActive.
ActiveAlerts_All(cabangId) ==
  {k \in StockKeys : /\ stockAlert[k].present
                     /\ (cabangId # "none" => k[2] = cabangId)}

\* findMany where isActive and, when the query names a branch, that branch.
ActiveAlerts(cabangId) ==
  {k \in StockKeys : /\ stockAlert[k].present
                     /\ stockAlert[k].isActive
                     /\ (cabangId # "none" => k[2] = cabangId)}

\* include productVariant.stocks, restricted to the branch of the query.
IncludedStocks(variantId, cabangId) ==
  {s \in StockKeys : /\ s[1] = variantId
                     /\ stock[s].present
                     /\ (cabangId # "none" => s[2] = cabangId)}

\* Mutant: a pair at its threshold counts as low.
lowStockItems_AtThreshold(cabangId) ==
  {k \in ActiveAlerts(cabangId) :
     \E s \in IncludedStocks(k[1], cabangId) :
       s[2] = k[2] /\ stock[s].quantity <= stockAlert[k].minStock}

\* Filter to only include items where current stock < minStock.
lowStockItems(cabangId) ==
  {k \in ActiveAlerts(cabangId) :
     \E s \in IncludedStocks(k[1], cabangId) :
       s[2] = k[2] /\ stock[s].quantity < stockAlert[k].minStock}

\* The rows a listing answers with.
AlertData(keys) ==
  {[productVariantId |-> k[1], cabangId |-> k[2], minStock |-> stockAlert[k].minStock] :
     k \in keys}

ListLowStock(p, cabangId) ==
  /\ h[p].pc = "idle"
  /\ listing' = [op |-> "listLowStock", cabangId |-> cabangId,
                  data |-> AlertData(lowStockItems(cabangId))]
  /\ Respond(p, "listLowStock", 0, "ok")
  /\ UNCHANGED <<stock, stockTransfer, stockAdjustment, debits, credits, events, stockAlert>>

\* ------------------------------------------------- GET /alerts
ListAlerts(p, cabangId) ==
  /\ h[p].pc = "idle"
  /\ listing' = [op |-> "listAlerts", cabangId |-> cabangId,
                  data |-> AlertData(ActiveAlerts(cabangId))]
  /\ Respond(p, "listAlerts", 0, "ok")
  /\ UNCHANGED <<stock, stockTransfer, stockAdjustment, debits, credits, events, stockAlert>>

\* The alert operations next to the writers of the ledger they read.
AlertNext ==
  \/ \E p \in Procs, variantId \in Variants, cabangId \in Branches,
        hasMinStock \in BOOLEAN, minStock \in -1..MaxMinStock :
       SetAlertRead(p, variantId, cabangId, hasMinStock, IF hasMinStock THEN minStock ELSE 0)
  \/ \E p \in Procs : SetAlertUpsert(p)
  \/ \E p \in Procs, variantId \in Variants, cabangId \in Branches :
       DeactivateAlert(p, variantId, cabangId)
  \/ \E p \in Procs, cabangId \in Branches \cup {"none"} : ListLowStock(p, cabangId)
  \/ \E p \in Procs, cabangId \in Branches \cup {"none"} : ListAlerts(p, cabangId)
  \/ \E p \in Procs, variantId \in Variants, cabangId \in Branches,
        type \in {"add", "subtract"}, quantity \in 1..MaxAmount :
       AdjustmentRead(p, variantId, cabangId, type, quantity, "damaged")
  \/ \E p \in Procs : AdjustmentTx(p)
  \/ \E p \in Procs, variantId \in Variants, cabangId \in Branches, body \in SetBodies :
       SetQuantityRead(p, "m1", variantId, cabangId,
                       body.hasQuantity, body.quantity, body.hasPrice, body.price)
  \/ \E p \in Procs : SetQuantityTx(p)

AlertSpec == Init /\ [][AlertNext]_vars

\* Adjustments served one after the other by a single handler, with every kind
\* of reason a body can carry: none, mapped to null, mapped to a code, unknown.
Reasons == {"none", "restock", "damaged", "expired", "unknown"}

AdjustmentNext ==
  \/ \E variantId \in Variants, cabangId \in Branches,
        type \in {"add", "subtract", "set"}, quantity \in -1..MaxAdjust,
        reason \in Reasons :
       AdjustmentRead(1, variantId, cabangId, type, quantity, reason)
  \/ AdjustmentTx(1)

AdjustmentSpec == Init /\ [][AdjustmentNext]_vars

\* The transfer routes alone: createTransfer, approveTransfer and
\* rejectTransfer, by every caller, in both handlers.
TransferNext ==
  \/ \E p \in Procs, userId \in Users, variantId \in Variants,
        fromCabangId \in Branches, toCabangId \in Branches,
        quantity \in -1..MaxAmount, notes \in {<<>>} :
       CreateTransferRead(p, userId, variantId, fromCabangId, toCabangId, quantity, notes)
  \/ \E p \in Procs : CreateTransferTx(p)
  \/ \E p \in Procs, userId \in Users, id \in TransferIds : ApproveRead(p, userId, id)
  \/ \E p \in Procs : ApproveCheck(p)
  \/ \E p \in Procs : ApproveTx(p)
  \/ \E p \in Procs, userId \in Users, id \in TransferIds, reason \in {"none", "r"} :
       RejectRead(p, userId, id, reason)
  \/ \E p \in Procs : RejectTx(p)

TransferSpec == Init /\ [][TransferNext]_vars

\* The database once an ADMIN's request for the whole source quantity has been
\* recorded: one PENDING transfer, the ledger untouched.
ReservationInit ==
  /\ stock = [k \in StockKeys |->
                IF k = <<"V1", "B1">>
                  THEN [present |-> TRUE, quantity |-> InitQty, price |-> InitPrice]
                  ELSE NoRow]
  /\ stockTransfer = <<[variantId |-> "V1", fromCabangId |-> "B1", toCabangId |-> "B2",
                        quantity |-> InitQty, transferredById |-> "a1",
                        notes |-> <<>>, status |-> "PENDING"]>>
  /\ debits = <<0>>
  /\ credits = <<0>>
  /\ stockAdjustment = <<>>
  /\ h = [p \in Procs |-> Idle]
  /\ response = [op |-> "createTransfer", id |-> 1, status |-> "ok"]
  /\ started = 0
  /\ events = <<>>
  /\ stockAlert = [k \in StockKeys |-> NoAlertRow]
  /\ listing = [op |-> "none", cabangId |-> "none", data |-> {}]

\* createTransfer and approveTransfer served one request after another.
ReservationNext ==
  \/ \E userId \in Users, variantId \in Variants,
        fromCabangId \in Branches, toCabangId \in Branches,
        quantity \in -1..MaxAmount, notes \in {<<>>} :
       CreateTransferRead(1, userId, variantId, fromCabangId, toCabangId, quantity, notes)
  \/ CreateTransferTx(1)
  \/ \E userId \in Users, id \in TransferIds : ApproveRead(1, userId, id)
  \/ ApproveCheck(1)
  \/ ApproveTx(1)

ReservationSpec == ReservationInit /\ [][ReservationNext]_vars

\* ====================================================================
\* Properties
\* ====================================================================
Elevated(userId) == RoleOf(userId) \in {"MANAGER", "OWNER"}

Terminal(id) ==
  id \in DOMAIN stockTransfer /\ stockTransfer[id].status \in {"COMPLETED", "CANCELLED"}

\* Handler p answers in this step, having been at pc with request op.
Answers(p, op, pc) == h[p].op = op /\ h[p].pc = pc /\ h'[p].pc = "idle"

DatabaseUnchanged ==
  UNCHANGED <<stock, stockTransfer, stockAdjustment, debits, credits, stockAlert>>

\* A step in which a request of one of ops can have been called: the call is
\* answered at once or passes its checks.
Called(ops) == response'.op \in ops \/ started' = started + 1

\* C1: in every reachable state every Stock row holds a quantity >= 0.
C1_QuantityNonNegative ==
  \A k \in StockKeys : stock[k].present => stock[k].quantity >= 0

\* C2: of two concurrent subtractions from the same pair that both read Q, each
\* asking for at most Q and together for more than Q, only one succeeds: once
\* the first has committed (its row is the latest of the log and the ledger
\* holds its newQty), the second answers InsufficientStock and writes nothing.
C2_SecondOfTwoSubtractions(q) ==
  /\ h[q].op = "createAdjustment" /\ h[q].pc = "tx" /\ h[q].type = "subtract"
  /\ Len(stockAdjustment) > 0
  /\ LET first == stockAdjustment[Len(stockAdjustment)]
         Q == h[q].previousQty
     IN /\ first.productVariantId = h[q].variantId
        /\ first.cabangId = h[q].cabangId
        /\ first.difference < 0
        /\ first.previousQty = Q
        /\ stock[<<h[q].variantId, h[q].cabangId>>].quantity = first.newQty
        /\ -first.difference <= Q
        /\ h[q].quantity <= Q
        /\ -first.difference + h[q].quantity > Q

C2_ExactlyOneSubtractionSucceeds ==
  [][\A q \in Procs :
       (C2_SecondOfTwoSubtractions(q) /\ h'[q].pc = "idle") =>
         (/\ response'.status = "InsufficientStock"
          /\ stockAdjustment' = stockAdjustment
          /\ stock' = stock)]_vars

\* C3: the ledger effect of a transfer (debit of the source, credit of the
\* destination) is applied once if the transfer is COMPLETED and never twice.
C3_LedgerEffectAtMostOnce ==
  \A t \in DOMAIN stockTransfer :
    /\ debits[t] <= 1
    /\ credits[t] <= 1
    /\ stockTransfer[t].status = "COMPLETED" => (debits[t] = 1 /\ credits[t] = 1)

\* C4: a transfer's status only changes PENDING -> COMPLETED or
\* PENDING -> CANCELLED; COMPLETED and CANCELLED are final.
C4_StatusTransitions ==
  [][\A t \in DOMAIN stockTransfer :
       stockTransfer'[t].status # stockTransfer[t].status =>
         (/\ stockTransfer[t].status = "PENDING"
          /\ stockTransfer'[t].status \in {"COMPLETED", "CANCELLED"})]_vars

\* C5 as stated: approveTransfer or rejectTransfer called on a COMPLETED or
\* CANCELLED transfer answers InvalidState and changes nothing.
C5_TerminalCallIsInvalidState ==
  [][\A p \in Procs, userId \in Users, id \in TransferIds :
       (Called({"approveTransfer", "rejectTransfer"}) /\ Terminal(id)) =>
         /\ ApproveRead(p, userId, id) =>
              (response'.status = "InvalidState" /\ DatabaseUnchanged /\ h' = h)
         /\ \A reason \in {"none", "r"} :
              RejectRead(p, userId, id, reason) =>
                (response'.status = "InvalidState" /\ DatabaseUnchanged /\ h' = h)]_vars

\* C5 amended: on a COMPLETED or CANCELLED transfer, rejectTransfer by anyone and
\* approveTransfer by an elevated role answer InvalidState, approveTransfer by a
\* non-elevated role answers Forbidden; in every case nothing changes.
C5_TerminalCallChangesNothing ==
  [][\A p \in Procs, userId \in Users, id \in TransferIds :
       (Called({"approveTransfer", "rejectTransfer"}) /\ Terminal(id)) =>
         /\ ApproveRead(p, userId, id) =>
              (/\ response' = [op |-> "approveTransfer", id |-> id,
                               status |-> IF Elevated(userId) THEN "InvalidState"
                                                              ELSE "Forbidden"]
               /\ DatabaseUnchanged /\ h' = h)
         /\ \A reason \in {"none", "r"} :
              RejectRead(p, userId, id, reason) =>
                (/\ response' = [op |-> "rejectTransfer", id |-> id,
                                 status |-> "InvalidState"]
                 /\ DatabaseUnchanged /\ h' = h)]_vars

C5_Witness ==
  /\ response.op \in {"approveTransfer", "rejectTransfer"}
  /\ response.status = "InvalidState"
  /\ Terminal(response.id)

\* C6: in every committed state a transfer is COMPLETED exactly when its source
\* has been debited and its destination credited; no debit without its credit.
C6_CompletedIffLedgerMoved ==
  \A t \in DOMAIN stockTransfer :
    /\ (debits[t] > 0) <=> (credits[t] > 0)
    /\ (stockTransfer[t].status = "COMPLETED") <=> (debits[t] > 0 /\ credits[t] > 0)

\* C7: a transfer created by MANAGER or OWNER is written COMPLETED in the step
\* that debits its source and credits its destination, and is never PENDING.
C7_LedgerMovedBy(p) ==
  LET from == <<h[p].variantId, h[p].cabangId>>
      to == <<h[p].variantId, h[p].toCabangId>>
  IN /\ Len(stockTransfer') = Len(stockTransfer) + 1
     /\ stockTransfer'[Len(stockTransfer')].status = "COMPLETED"
     /\ stock'[from].quantity = stock[from].quantity - h[p].quantity
     /\ stock'[to].present
     /\ stock'[to].quantity =
          (IF stock[to].present THEN stock[to].quantity ELSE 0) + h[p].quantity

C8_ValidRequest(userId, variantId, fromCabangId, toCabangId, quantity) ==
  /\ fromCabangId # toCabangId
  /\ quantity > 0
  /\ stock[<<variantId, fromCabangId>>].present
  /\ stock[<<variantId, fromCabangId>>].quantity >= quantity

C8_WritesPendingOnly(p) ==
  /\ Len(stockTransfer') = Len(stockTransfer) + 1
  /\ stockTransfer'[Len(stockTransfer')].status = "PENDING"
  /\ stock' = stock

\* C8 as stated: createTransfer by any role other than MANAGER/OWNER, valid and
\* with enough stock, writes a PENDING row and leaves every Stock row alone.
C8_NonElevatedCreatesPending ==
  [][/\ \A p \in Procs, userId \in Users, variantId \in Variants,
           fromCabangId \in Branches, toCabangId \in Branches, quantity \in 1..MaxAmount :
          (/\ Called({"createTransfer"})
           /\ ~Elevated(userId)
           /\ C8_ValidRequest(userId, variantId, fromCabangId, toCabangId, quantity)
           /\ CreateTransferRead(p, userId, variantId, fromCabangId, toCabangId,
                                 quantity, <<>>)) =>
            (h'[p].op = "createTransfer" /\ h'[p].pc = "tx" /\ DatabaseUnchanged)
     /\ \A p \in Procs :
          (Answers(p, "createTransfer", "tx") /\ ~Elevated(h[p].userId)) =>
            C8_WritesPendingOnly(p)]_vars

\* C8 amended: createTransfer by ADMIN, valid and with enough stock, writes a
\* PENDING row and leaves every Stock row alone; by KASIR it answers Forbidden
\* and writes nothing.
C8_AdminCreatesPending ==
  [][/\ \A p \in Procs, userId \in Users, variantId \in Variants,
           fromCabangId \in Branches, toCabangId \in Branches, quantity \in 1..MaxAmount :
          (/\ Called({"createTransfer"})
           /\ ~Elevated(userId)
           /\ C8_ValidRequest(userId, variantId, fromCabangId, toCabangId, quantity)
           /\ CreateTransferRead(p, userId, variantId, fromCabangId, toCabangId,
                                 quantity, <<>>)) =>
            IF RoleOf(userId) = "KASIR"
              THEN /\ response' = [op |-> "createTransfer", id |-> 0, status |-> "Forbidden"]
                   /\ DatabaseUnchanged /\ h' = h
              ELSE h'[p].op = "createTransfer" /\ h'[p].pc = "tx" /\ DatabaseUnchanged
     /\ \A p \in Procs :
          (Answers(p, "createTransfer", "tx") /\ ~Elevated(h[p].userId)) =>
            C8_WritesPendingOnly(p)]_vars

C8_Witness ==
  \E t \in DOMAIN stockTransfer :
    /\ RoleOf(stockTransfer[t].transferredById) = "ADMIN"
    /\ stockTransfer[t].status = "PENDING"
    /\ debits[t] = 0 /\ credits[t] = 0
    /\ response = [op |-> "createTransfer", id |-> t, status |-> "ok"]

\* C9: createTransfer asking for more than the source holds answers
\* InsufficientStock and writes neither a transfer nor a Stock row, at its
\* check and also when the source was lowered between its check and its write.
C9_InsufficientCreateWritesNothing ==
  [][/\ \A p \in Procs, userId \in Users, variantId \in Variants,
           fromCabangId \in Branches, toCabangId \in Branches, quantity \in 1..MaxAmount :
          (/\ Called({"createTransfer"})
           /\ RoleOf(userId) # "KASIR"
           /\ fromCabangId # toCabangId
           /\ stock[<<variantId, fromCabangId>>].present
           /\ stock[<<variantId, fromCabangId>>].quantity < quantity
           /\ CreateTransferRead(p, userId, variantId, fromCabangId, toCabangId,
                                 quantity, <<>>)) =>
            (response'.status = "InsufficientStock" /\ DatabaseUnchanged /\ h' = h)
     /\ \A p \in Procs :
          (/\ Answers(p, "createTransfer", "tx")
           /\ stock[<<h[p].variantId, h[p].cabangId>>].quantity < h[p].quantity) =>
            (response'.status = "InsufficientStock" /\ DatabaseUnchanged)]_vars

\* C10: the re-check of approveTransfer, finding the source row missing or
\* holding less than the transfer asks for, answers InsufficientStock and
\* leaves the transfer and every Stock row as they are; finding enough, it lets
\* the approval go on, whatever was answered before.
C10_SourceShort(id) ==
  LET transfer == stockTransfer[id]
      sourceStock == stock[<<transfer.variantId, transfer.fromCabangId>>]
  IN ~sourceStock.present \/ sourceStock.quantity < transfer.quantity

C10_RecheckLeavesPending ==
  [][\A p \in Procs :
       (h[p].op = "approveTransfer" /\ h[p].pc = "check" /\ h'[p] # h[p]) =>
         IF C10_SourceShort(h[p].id)
           THEN /\ response' = [op |-> "approveTransfer", id |-> h[p].id,
                                status |-> "InsufficientStock"]
                /\ h'[p].pc = "idle"
                /\ DatabaseUnchanged
           ELSE /\ h'[p].pc = "tx"
                /\ DatabaseUnchanged]_vars

C10_Witness ==
  /\ response.op = "approveTransfer"
  /\ response.status = "InsufficientStock"
  /\ response.id \in DOMAIN stockTransfer
  /\ stockTransfer[response.id].status = "PENDING"
  /\ C10_SourceShort(response.id)

\* C11: approveTransfer by a non-elevated role changes no transfer and no Stock
\* row; it answers Forbidden for a transfer that exists and NotFound for an id
\* that names no transfer.
C11_NonElevatedApproveRefused ==
  [][\A p \in Procs, userId \in Users, id \in TransferIds :
       (/\ Called({"approveTransfer"})
        /\ ~Elevated(userId)
        /\ ApproveRead(p, userId, id)) =>
         /\ DatabaseUnchanged /\ h' = h
         /\ response' = [op |-> "approveTransfer", id |-> id,
                         status |-> IF id \in DOMAIN stockTransfer
                                      THEN "Forbidden" ELSE "NotFound"]]_vars

\* C12: rejectTransfer on a PENDING transfer by an actor who is neither elevated
\* nor the requester of the transfer answers Forbidden and leaves the transfer
\* PENDING.
C12_OnlyRequesterOrElevatedRejects ==
  [][\A p \in Procs, userId \in Users, id \in DOMAIN stockTransfer,
        reason \in {"none", "r"} :
       (/\ Called({"rejectTransfer"})
        /\ stockTransfer[id].status = "PENDING"
        /\ ~Elevated(userId)
        /\ stockTransfer[id].transferredById # userId
        /\ RejectRead(p, userId, id, reason)) =>
         /\ response' = [op |-> "rejectTransfer", id |-> id, status |-> "Forbidden"]
         /\ DatabaseUnchanged /\ h' = h]_vars

C14_SubtractBeyondStockRefused ==
  [][\A variantId \in Variants, cabangId \in Branches, n \in 1..MaxAdjust,
        reason \in Reasons :
       (/\ stock[<<variantId, cabangId>>].present
        /\ stock[<<variantId, cabangId>>].quantity < n
        /\ AdjustmentRead(1, variantId, cabangId, "subtract", n, reason)) =>
         /\ response' = [op |-> "createAdjustment", id |-> 0,
                         status |-> "InsufficientStock"]
         /\ DatabaseUnchanged /\ events' = events /\ h' = h]_vars

C14_Witness ==
  /\ response = [op |-> "createAdjustment", id |-> 0, status |-> "InsufficientStock"]
  /\ stock[<<"V1", "B1">>].quantity = InitQty
  /\ stockAdjustment = <<>>
  /\ events = <<>>

\* The latest adjustment row, when the log holds one and handler 1 is idle or
\* about to commit.
C15_Last == stockAdjustment[Len(stockAdjustment)]

\* C15: createAdjustment(add, Q) followed by createAdjustment(subtract, Q) on
\* the same pair: both pass their checks, the second commit returns the ledger
\* to the quantity before the add, and the log gains two rows with differences
\* +Q and -Q, the second row's previousQty being the first row's newQty.
C15_AddThenSubtractRestores ==
  [][/\ \A variantId \in Variants, cabangId \in Branches, Q \in 1..MaxAdjust,
           reason \in Reasons :
          /\ (/\ stock[<<variantId, cabangId>>].present
              /\ AdjustmentRead(1, variantId, cabangId, "add", Q, reason)) =>
               h'[1].pc = "tx"
          /\ (/\ Len(stockAdjustment) > 0
              /\ C15_Last.cabangId = cabangId /\ C15_Last.productVariantId = variantId
              /\ C15_Last.difference = Q
              /\ AdjustmentRead(1, variantId, cabangId, "subtract", Q, reason)) =>
               h'[1].pc = "tx"
     /\ (/\ Answers(1, "createAdjustment", "tx")
         /\ h[1].type = "subtract"
         /\ Len(stockAdjustment) > 0
         /\ C15_Last.cabangId = h[1].cabangId
         /\ C15_Last.productVariantId = h[1].variantId
         /\ C15_Last.difference = h[1].quantity) =>
          LET second == stockAdjustment'[Len(stockAdjustment')]
          IN /\ response'.status = "ok"
             /\ Len(stockAdjustment') = Len(stockAdjustment) + 1
             /\ second.difference = -h[1].quantity
             /\ second.difference + C15_Last.difference = 0
             /\ second.previousQty = C15_Last.newQty
             /\ second.newQty = C15_Last.previousQty
             /\ stock'[<<h[1].variantId, h[1].cabangId>>].quantity = C15_Last.previousQty]_vars

C15_Witness ==
  /\ Len(stockAdjustment) >= 2
  /\ response = [op |-> "createAdjustment", id |-> 0, status |-> "ok"]
  /\ stockAdjustment[Len(stockAdjustment) - 1].difference = MaxAdjust
  /\ C15_Last.difference = -MaxAdjust
  /\ stock[<<"V1", "B1">>].quantity = stockAdjustment[Len(stockAdjustment) - 1].previousQty

\* C18: createAdjustment with a reason that is not a recognized reason code
\* answers ValidationError and changes nothing; no row is written for it.
C18_UnknownReasonRejected ==
  [][\A variantId \in Variants, cabangId \in Branches,
        type \in {"add", "subtract"}, quantity \in 1..MaxAdjust, reason \in Reasons :
       (/\ reason # "none"
        /\ reason \notin DOMAIN reasonMap
        /\ AdjustmentRead(1, variantId, cabangId, type, quantity, reason)) =>
         /\ response' = [op |-> "createAdjustment", id |-> 0, status |-> "ValidationError"]
         /\ DatabaseUnchanged /\ h' = h]_vars

\* C16: every StockAdjustment row, written by createAdjustment or by
\* setQuantity, has difference = newQty - previousQty, and a row once written
\* is neither modified nor removed: the log only grows at its end.
C16_RowsConsistentAndAppendOnly ==
  /\ [](\A i \in DOMAIN stockAdjustment :
          stockAdjustment[i].difference =
            stockAdjustment[i].newQty - stockAdjustment[i].previousQty)
  /\ [][/\ Len(stockAdjustment') >= Len(stockAdjustment)
        /\ \A i \in DOMAIN stockAdjustment : stockAdjustment'[i] = stockAdjustment[i]]_vars

C16_Witness ==
  \E i, j \in DOMAIN stockAdjustment :
    /\ i < j
    /\ stockAdjustment[i].difference < 0
    /\ stockAdjustment[j].difference > 0
    /\ \E e \in DOMAIN events : events[e].type = "set"

\* The pairs whose quantity a step changes, the transfers it completes and the
\* adjustment rows it appends.
C17_Changed == {k \in StockKeys : stock'[k].quantity # stock[k].quantity}

C17_Completed ==
  {t \in DOMAIN stockTransfer' :
     /\ stockTransfer'[t].status = "COMPLETED"
     /\ (t \in DOMAIN stockTransfer => stockTransfer[t].status # "COMPLETED")}

C17_NewRows == Len(stockAdjustment') - Len(stockAdjustment)

\* C17: a step that changes a Stock quantity appends exactly one adjustment
\* row (for that pair) or creates/completes exactly one transfer (between the
\* pairs changed); a transfer is completed only in a step that changes the
\* ledger.
C17_LedgerWriteHasItsRecord ==
  [][/\ C17_Changed # {} =>
          \/ /\ C17_NewRows = 1 /\ C17_Completed = {}
             /\ LET row == stockAdjustment'[Len(stockAdjustment')]
                IN C17_Changed = {<<row.productVariantId, row.cabangId>>}
          \/ /\ C17_NewRows = 0 /\ Cardinality(C17_Completed) = 1
             /\ \A t \in C17_Completed :
                  C17_Changed = {<<stockTransfer'[t].variantId, stockTransfer'[t].fromCabangId>>,
                                 <<stockTransfer'[t].variantId, stockTransfer'[t].toCabangId>>}
     /\ C17_Completed # {} => C17_Changed # {}]_vars

\* The ledger effect C19 asks of a step that completes a transfer of n from
\* pair from to pair to.
C19_Moved(from, to, n) ==
  /\ stock'[from].quantity = stock[from].quantity - n
  /\ IF stock[to].present
       THEN stock'[to] = [stock[to] EXCEPT !.quantity = @ + n]
       ELSE stock'[to] = [present |-> TRUE, quantity |-> n, price |-> stock[from].price]

\* C19: the step that completes a transfer of n (auto-approved creation or
\* approval) lowers the source by n and either creates the destination row
\* with quantity n and the source row's price, or raises the existing
\* destination row by n and leaves its price as it is.
C19_CompletionMovesQuantityAndCopiesPrice ==
  [][\A p \in Procs :
       /\ (Answers(p, "createTransfer", "tx") /\ Elevated(h[p].userId)) =>
            C19_Moved(<<h[p].variantId, h[p].cabangId>>,
                      <<h[p].variantId, h[p].toCabangId>>, h[p].quantity)
       /\ Answers(p, "approveTransfer", "tx") =>
            LET transfer == stockTransfer[h[p].id]
            IN C19_Moved(<<transfer.variantId, transfer.fromCabangId>>,
                         <<transfer.variantId, transfer.toCabangId>>, transfer.quantity)]_vars

\* The pairs C20 expects a listing for branch cabangId ("none": every branch)
\* to hold: active thresholds above the current quantity of their pair.
C20_Expected(cabangId) ==
  {k \in StockKeys : /\ stockAlert[k].present /\ stockAlert[k].isActive
                     /\ (cabangId # "none" => k[2] = cabangId)
                     /\ stock[k].quantity < stockAlert[k].minStock}

\* C20: listLowStock answers with exactly the active thresholds (of the branch
\* asked for, when one is given) whose pair currently holds less than minStock.
C20_ListLowStockIsExact ==
  [][\A p \in Procs, cabangId \in Branches \cup {"none"} :
       ListLowStock(p, cabangId) =>
         /\ {<<d.productVariantId, d.cabangId>> : d \in listing'.data} = C20_Expected(cabangId)
         /\ \A d \in listing'.data :
              d.minStock = stockAlert[<<d.productVariantId, d.cabangId>>].minStock]_vars

\* What a commit of setAlert by handler p leaves: the row of its pair, active,
\* with the threshold asked for, and every other row as it was.
C21_Upserted(p) ==
  LET k == <<h[p].variantId, h[p].cabangId>>
  IN /\ response' = [op |-> "setAlert", id |-> 0, status |-> "ok"]
     /\ stockAlert'[k] = [present |-> TRUE, minStock |-> h[p].minStock, isActive |-> TRUE]
     /\ \A j \in StockKeys \ {k} : stockAlert'[j] = stockAlert[j]
     /\ stock' = stock

\* A refusal of setAlert: the answer and nothing else.
C21_Refused(status) ==
  /\ response' = [op |-> "setAlert", id |-> 0, status |-> status]
  /\ DatabaseUnchanged /\ h' = h

\* C21 as stated: setAlert with minQty < 0 answers ValidationError and changes
\* nothing; with minQty >= 0 it goes on to leave one active row with that
\* minQty for the pair, whatever the pair held; every row has minQty >= 0.
C21_SetAlertUpserts ==
  /\ [](\A k \in StockKeys : stockAlert[k].present => stockAlert[k].minStock >= 0)
  /\ [][/\ \A p \in Procs, variantId \in Variants, cabangId \in Branches,
              minStock \in -1..MaxMinStock :
             SetAlertRead(p, variantId, cabangId, TRUE, minStock) =>
               IF minStock < 0 THEN C21_Refused("ValidationError")
                               ELSE h'[p].op = "setAlert" /\ h'[p].pc = "tx"
        /\ \A p \in Procs : Answers(p, "setAlert", "tx") => C21_Upserted(p)]_vars

\* C21 amended: as stated for a pair that has a Stock row; for a pair without
\* one, setAlert with minQty >= 0 answers NotFound and changes nothing.
C21_SetAlertUpsertsForStockedPair ==
  /\ [](\A k \in StockKeys : stockAlert[k].present => stockAlert[k].minStock >= 0)
  /\ [][/\ \A p \in Procs, variantId \in Variants, cabangId \in Branches,
              minStock \in -1..MaxMinStock :
             SetAlertRead(p, variantId, cabangId, TRUE, minStock) =>
               IF minStock < 0 THEN C21_Refused("ValidationError")
               ELSE IF ~stock[<<variantId, cabangId>>].present THEN C21_Refused("NotFound")
               ELSE h'[p].op = "setAlert" /\ h'[p].pc = "tx"
        /\ \A p \in Procs : Answers(p, "setAlert", "tx") => C21_Upserted(p)]_vars

\* A deactivated row (no listing shows it) has been set again and is active.
C21_Witness ==
  /\ response = [op |-> "setAlert", id |-> 0, status |-> "ok"]
  /\ listing = [op |-> "listAlerts", cabangId |-> "none", data |-> {}]
  /\ stockAlert[<<"V1", "B1">>] =
       [present |-> TRUE, minStock |-> MaxMinStock, isActive |-> TRUE]

\* C22: deactivateAlert on an existing alert sets isActive = false and leaves
\* the row with its minQty; no step removes a StockAlert row; a listing
\* (listAlerts, listLowStock) holds no pair whose alert is inactive; and the
\* deactivation changes no Stock row.
C22_DeactivateKeepsRowAndHidesIt ==
  [][/\ \A p \in Procs, variantId \in Variants, cabangId \in Branches :
          (/\ stockAlert[<<variantId, cabangId>>].present
           /\ DeactivateAlert(p, variantId, cabangId)) =>
            /\ response' = [op |-> "deactivateAlert", id |-> 0, status |-> "ok"]
            /\ stockAlert' = [stockAlert EXCEPT ![<<variantId, cabangId>>] =
                 [present |-> TRUE, minStock |-> @.minStock, isActive |-> FALSE]]
            /\ stock' = stock /\ stockAdjustment' = stockAdjustment
     /\ \A k \in StockKeys : stockAlert[k].present => stockAlert'[k].present
     /\ \A p \in Procs, cabangId \in Branches \cup {"none"} :
          (ListAlerts(p, cabangId) \/ ListLowStock(p, cabangId)) =>
            \A d \in listing'.data : stockAlert[<<d.productVariantId, d.cabangId>>].isActive]_vars

\* The alert of B1 is deactivated, its threshold kept, and listAlerts shows
\* nothing.
C22_Witness ==
  /\ response = [op |-> "listAlerts", id |-> 0, status |-> "ok"]
  /\ listing = [op |-> "listAlerts", cabangId |-> "B1", data |-> {}]
  /\ stockAlert[<<"V1", "B1">>] =
       [present |-> TRUE, minStock |-> MaxMinStock, isActive |-> FALSE]

\* The pair was set low (threshold above the quantity), then raised by an add,
\* and the listing for its branch is empty.
C20_Witness ==
  /\ listing.op = "listLowStock" /\ listing.cabangId = "B1" /\ listing.data = {}
  /\ stockAlert[<<"V1", "B1">>].isActive
  /\ stockAlert[<<"V1", "B1">>].minStock = MaxMinStock
  /\ stock[<<"V1", "B1">>].quantity = MaxMinStock
  /\ Len(stockAdjustment) = 1 /\ stockAdjustment[1].difference > 0

\* The transfer events emitted for transfer t.
C23_EventsOf(t) ==
  {i \in DOMAIN events : events[i].type = "transfer" /\ events[i].id = t}

\* The transfer events appended by this step.
C23_Emitted ==
  {i \in DOMAIN events' \ DOMAIN events : events'[i].type = "transfer"}

\* C23: a transfer event is emitted by a step exactly when the step moved the
\* ledger for a transfer (one event, carrying that transfer), so createTransfer
\* on the PENDING path, rejectTransfer and every refusal emit none; and a
\* transfer has exactly one event once COMPLETED and never more than one.
C23_OneEventPerCompletedTransfer ==
  /\ [](\A t \in DOMAIN stockTransfer :
          /\ Cardinality(C23_EventsOf(t)) <= 1
          /\ stockTransfer[t].status = "COMPLETED" => Cardinality(C23_EventsOf(t)) = 1)
  /\ [][/\ \A i \in DOMAIN events : events'[i] = events[i]
        /\ \A t \in DOMAIN stockTransfer' :
             LET before == IF t \in DOMAIN debits THEN debits[t] ELSE 0
             IN IF debits'[t] > before
                  THEN /\ Cardinality(C23_Emitted) = 1
                       /\ \A i \in C23_Emitted : events'[i].id = t
                       /\ stockTransfer'[t].status = "COMPLETED"
                  ELSE \A i \in C23_Emitted : events'[i].id # t
        /\ \A p \in Procs :
             (\/ Answers(p, "rejectTransfer", "tx")
              \/ Answers(p, "rejectTransfer", "idle")
              \/ Answers(p, "approveTransfer", "check")
              \/ response'.status # "ok") => events' = events]_vars

\* The adjustment events.
C24_AdjustmentEvents == {i \in DOMAIN events : events[i].type = "adjustment"}

\* C24: createAdjustment emits one event per successful call, in the step that
\* commits, and none when it refuses; the event names the row the commit
\* appended, its quantity is the row's newQty and the quantity the commit
\* left in the ledger, and its previousQty is the row's previousQty; this
\* holds whatever other writers did between the read and the commit.
C24_AdjustmentEventMatchesCommit ==
  /\ [](\A i \in C24_AdjustmentEvents :
          /\ events[i].id \in DOMAIN stockAdjustment
          /\ events[i].quantity = stockAdjustment[events[i].id].newQty
          /\ events[i].previousQty = stockAdjustment[events[i].id].previousQty
          /\ \A j \in C24_AdjustmentEvents : events[j].id = events[i].id => j = i)
  /\ [][\A p \in Procs :
          /\ Answers(p, "createAdjustment", "tx") =>
               LET k == <<h[p].variantId, h[p].cabangId>>
                   row == stockAdjustment'[Len(stockAdjustment')]
                   e == events'[Len(events')]
               IN /\ response' = [op |-> "createAdjustment", id |-> 0, status |-> "ok"]
                  /\ Len(stockAdjustment') = Len(stockAdjustment) + 1
                  /\ events' = Append(events, e)
                  /\ e.type = "adjustment" /\ e.id = Len(stockAdjustment')
                  /\ e.variantId = k[1] /\ e.cabangId = k[2]
                  /\ e.quantity = row.newQty /\ e.quantity = stock'[k].quantity
                  /\ e.previousQty = row.previousQty
          /\ Answers(p, "createAdjustment", "idle") =>
               (events' = events /\ stockAdjustment' = stockAdjustment)]_vars

\* Two adjustments that read the same quantity have both committed: two rows
\* with the same previousQty, two events, the second matching the ledger.
C24_Witness ==
  /\ Len(stockAdjustment) = 2 /\ Len(events) = 2
  /\ C24_AdjustmentEvents = {1, 2}
  /\ stockAdjustment[1].previousQty = InitQty /\ stockAdjustment[2].previousQty = InitQty
  /\ stockAdjustment[1].newQty # stockAdjustment[2].newQty
  /\ events[2].quantity = stock[<<"V1", "B1">>].quantity

\* Every StockTransfer record names two different branches and a quantity > 0.
C25_RecordsValid ==
  \A t \in DOMAIN stockTransfer :
    /\ stockTransfer[t].fromCabangId # stockTransfer[t].toCabangId
    /\ stockTransfer[t].quantity > 0

\* A step in which handler p can have taken a createTransfer call: it was idle
\* and the call is answered at once or goes on to its transaction.
C25_Takes(p) ==
  /\ h[p].pc = "idle"
  /\ \/ h'[p].op = "createTransfer"
     \/ h' = h /\ response'.op = "createTransfer"

\* C25 as stated: every StockTransfer record has different branches and a
\* quantity > 0, and createTransfer with equal branches or quantity <= 0
\* answers ValidationError and writes nothing.
C25_InvalidCreateIsValidationError ==
  /\ []C25_RecordsValid
  /\ [][\A p \in Procs : C25_Takes(p) =>
         \A userId \in Users, variantId \in Variants,
            fromCabangId \in Branches, toCabangId \in Branches,
            quantity \in -1..MaxAmount :
          (/\ fromCabangId = toCabangId \/ quantity <= 0
           /\ CreateTransferRead(p, userId, variantId, fromCabangId, toCabangId,
                                 quantity, <<>>)) =>
            /\ response' = [op |-> "createTransfer", id |-> 0, status |-> "ValidationError"]
            /\ DatabaseUnchanged /\ events' = events /\ h' = h]_vars

\* C25 amended: as stated, except that a KASIR caller is answered Forbidden,
\* the role being checked before the body; nothing is written either way.
C25_InvalidCreateWritesNothing ==
  /\ []C25_RecordsValid
  /\ [][\A p \in Procs : C25_Takes(p) =>
         \A userId \in Users, variantId \in Variants,
            fromCabangId \in Branches, toCabangId \in Branches,
            quantity \in -1..MaxAmount :
          (/\ fromCabangId = toCabangId \/ quantity <= 0
           /\ CreateTransferRead(p, userId, variantId, fromCabangId, toCabangId,
                                 quantity, <<>>)) =>
            /\ response' = [op |-> "createTransfer", id |-> 0,
                            status |-> IF RoleOf(userId) = "KASIR" THEN "Forbidden"
                                                                   ELSE "ValidationError"]
            /\ DatabaseUnchanged /\ events' = events /\ h' = h]_vars

\* A transfer exists and a later createTransfer was refused by the validation.
C25_Witness ==
  /\ response = [op |-> "createTransfer", id |-> 0, status |-> "ValidationError"]
  /\ Len(stockTransfer) > 0

\* C26: createAdjustment with quantity <= 0 or with a type other than add and
\* subtract answers ValidationError, and on a pair without a Stock row it
\* answers NotFound; in each case no Stock row is created or modified, no
\* StockAdjustment row is written and nothing else changes.
C26_InvalidAdjustmentChangesNothing ==
  [][\A variantId \in Variants, cabangId \in Branches,
        type \in {"add", "subtract", "set"}, quantity \in -1..MaxAdjust,
        reason \in Reasons :
       LET invalid == quantity <= 0 \/ type \notin {"add", "subtract"}
           absent == ~stock[<<variantId, cabangId>>].present
       IN (/\ invalid \/ absent
           /\ AdjustmentRead(1, variantId, cabangId, type, quantity, reason)) =>
            /\ response' = [op |-> "createAdjustment", id |-> 0,
                            status |-> IF invalid THEN "ValidationError" ELSE "NotFound"]
            /\ DatabaseUnchanged /\ events' = events /\ h' = h]_vars

\* After a committed adjustment, a call on the branch that holds no row of the
\* variant was answered NotFound.
C26_Witness ==
  /\ response = [op |-> "createAdjustment", id |-> 0, status |-> "NotFound"]
  /\ ~stock[<<"V1", "B2">>].present
  /\ Len(stockAdjustment) > 0

\* The quantity of pair k before any request; an absent row counts as 0.
C27_Initial(k) == IF k = <<"V1", "B1">> THEN InitQty ELSE 0

\* The sum of the differences of the committed adjustment rows of pair k.
C27_Adjusted(k) ==
  LET S[i \in 0..Len(stockAdjustment)] ==
        IF i = 0 THEN 0
        ELSE S[i - 1] + (IF /\ stockAdjustment[i].productVariantId = k[1]
                            /\ stockAdjustment[i].cabangId = k[2]
                           THEN stockAdjustment[i].difference ELSE 0)
  IN S[Len(stockAdjustment)]

\* The credits minus the debits that committed transfers applied to pair k.
C27_Transferred(k) ==
  LET S[t \in 0..Len(stockTransfer)] ==
        IF t = 0 THEN 0
        ELSE S[t - 1]
             + (IF /\ stockTransfer[t].variantId = k[1] /\ stockTransfer[t].toCabangId = k[2]
                  THEN credits[t] * stockTransfer[t].quantity ELSE 0)
             - (IF /\ stockTransfer[t].variantId = k[1] /\ stockTransfer[t].fromCabangId = k[2]
                  THEN debits[t] * stockTransfer[t].quantity ELSE 0)
  IN S[Len(stockTransfer)]

\* No absolute set (setQuantity) has committed.
C27_NoSet == \A i \in DOMAIN events : events[i].type # "set"

\* C27: no update is lost when createAdjustment calls and transfer debits and
\* credits race on a pair: as long as no absolute set has committed, the pair
\* holds its initial quantity plus the differences of the committed adjustment
\* rows plus the credits minus the debits of the transfers; and the previousQty
\* of an adjustment row is the quantity the ledger holds when it commits.
C27_NoLostUpdate ==
  /\ [](C27_NoSet =>
          \A k \in StockKeys :
            (IF stock[k].present THEN stock[k].quantity ELSE 0) =
              C27_Initial(k) + C27_Adjusted(k) + C27_Transferred(k))
  /\ [][\A p \in Procs :
          Answers(p, "createAdjustment", "tx") =>
            h[p].previousQty = stock[<<h[p].variantId, h[p].cabangId>>].quantity]_vars

\* C28: the commit of setQuantity with a quantity leaves the pair's row present
\* with exactly that quantity; the previousQty it reports is the quantity the
\* row held immediately before the write (0 if there was no row); it appends
\* one adjustment row, with that previousQty and the new quantity, exactly
\* when the quantity changed; a price-only update appends no row and leaves
\* the quantity as it was.
C28_SetQuantityIsAbsolute ==
  [][\A p \in Procs :
       Answers(p, "setQuantity", "tx") =>
         LET k == <<h[p].variantId, h[p].cabangId>>
             before == IF stock[k].present THEN stock[k].quantity ELSE 0
             reported == events'[Len(events')]
             row == stockAdjustment'[Len(stockAdjustment')]
         IN /\ response' = [op |-> "setQuantity", id |-> 0, status |-> "ok"]
            /\ stock'[k].present
            /\ Len(events') = Len(events) + 1 /\ reported.type = "set"
            /\ IF h[p].hasQuantity
                 THEN /\ stock'[k].quantity = h[p].newQty
                      /\ reported.quantity = h[p].newQty
                      /\ reported.previousQty = before
                      /\ IF before # h[p].newQty
                           THEN /\ Len(stockAdjustment') = Len(stockAdjustment) + 1
                                /\ row.productVariantId = k[1] /\ row.cabangId = k[2]
                                /\ row.previousQty = before
                                /\ row.newQty = h[p].newQty
                           ELSE stockAdjustment' = stockAdjustment
                 ELSE /\ stock'[k].quantity = before
                      /\ stockAdjustment' = stockAdjustment]_vars

\* The sum, over the branches, of the quantities rows holds of variant v.
C29_Total(rows, v) ==
  LET Sum[B \in SUBSET Branches] ==
        IF B = {} THEN 0
        ELSE LET b == CHOOSE x \in B : TRUE
             IN (IF rows[<<v, b>>].present THEN rows[<<v, b>>].quantity ELSE 0)
                + Sum[B \ {b}]
  IN Sum[Branches]

C30_PendingReservesNothing ==
  /\ [](\A k \in StockKeys : stock[k].present => stock[k].quantity >= 0)
  /\ [][/\ \A userId \in Users \ {"k1"}, variantId \in Variants,
              fromCabangId \in Branches, toCabangId \in Branches,
              quantity \in 1..MaxAmount :
             (/\ fromCabangId # toCabangId
              /\ stock[<<variantId, fromCabangId>>].present
              /\ stock[<<variantId, fromCabangId>>].quantity >= quantity
              /\ CreateTransferRead(1, userId, variantId, fromCabangId, toCabangId,
                                    quantity, <<>>)) =>
               (h'[1].op = "createTransfer" /\ h'[1].pc = "tx")
        /\ (h[1].op = "approveTransfer" /\ h[1].pc = "check" /\ h'[1] # h[1]) =>
             LET transfer == stockTransfer[h[1].id]
                 source == stock[<<transfer.variantId, transfer.fromCabangId>>]
             IN IF source.present /\ source.quantity >= transfer.quantity
                  THEN h'[1].pc = "tx" /\ DatabaseUnchanged
                  ELSE /\ response' = [op |-> "approveTransfer", id |-> h[1].id,
                                       status |-> "InsufficientStock"]
                       /\ stockTransfer'[h[1].id].status = "PENDING"
                       /\ DatabaseUnchanged /\ events' = events
        /\ Answers(1, "approveTransfer", "tx") =>
             LET transfer == stockTransfer[h[1].id]
                 k == <<transfer.variantId, transfer.fromCabangId>>
             IN /\ stock[k].quantity >= transfer.quantity
                /\ stock'[k].quantity = stock[k].quantity - transfer.quantity
                /\ stockTransfer'[h[1].id].status = "COMPLETED"]_vars

\* Two PENDING transfers drew on the source for more than it held: the first
\* was approved and emptied the source; the approval of the second was refused
\* and it is still PENDING.
C30_Witness ==
  /\ Len(stockTransfer) = 2
  /\ stockTransfer[1].status = "COMPLETED" /\ stockTransfer[2].status = "PENDING"
  /\ debits = <<1, 0>>
  /\ response = [op |-> "approveTransfer", id |-> 2, status |-> "InsufficientStock"]
  /\ stock[<<"V1", "B1">>].quantity = 0

====
